---- MODULE Spec2Model ----
(***************************************************************************)
(* A model of vision1.py, the Smart Food Analyzer: the nutrition-advice    *)
(* rule engine (give_recommendations), the health-goal keyword extractor   *)
(* (extract_health_goals), the nutrition lookup and the "Analyze Food"     *)
(* handler, and the feedback store (save_feedback, show_sentiment_graph,   *)
(* the "Submit Feedback" handler).                                         *)
(*                                                                         *)
(* Message texts are the source's texts without the leading emoji, and     *)
(* with the em dash written "-": the module is ASCII.                      *)
(***************************************************************************)
EXTENDS Integers, Sequences, FiniteSets, TLC

VARIABLES
    pc,             \* what the program did last
    nutrition,      \* give_recommendations: the `nutrition` argument (a dict)
    health_goals,   \* give_recommendations: the `health_goals` argument
    advice,         \* give_recommendations: the returned list
    prompt,         \* extract_health_goals: the `prompt` argument
    extracted,      \* extract_health_goals: the returned dict
    feedback_file,  \* the file feedback.csv
    submitted,      \* the feedback form as last submitted
    prev_file,      \* feedback.csv as it was before the last script run
    ui,             \* what the last script run showed, in order
    sentiment_counts, \* show_sentiment_graph: the counts last drawn
    analyzed,       \* the inputs of the last Analyze Food run
    session_info,   \* st.session_state.nutrition_info (None: not set)
    prev_session,   \* session_info as it was before the last script run
    lookups         \* the requests the last script run sent to Nutritionix

recVars == <<nutrition, health_goals, advice>>
goalVars == <<prompt, extracted>>
fbVars == <<feedback_file, submitted, prev_file, sentiment_counts>>
anVars == <<analyzed, session_info, prev_session, lookups>>
vars == <<pc, ui, recVars, goalVars, fbVars, anVars>>

(***************************************************************************)
(* Python values                                                           *)
(***************************************************************************)
\* Python values are tagged: None, an int, a bool or a str.  A dict is a
\* function from its keys to Python values; {} is the empty function.
None == [ t |-> "None" ]
PyInt(n) == [ t |-> "int", v |-> n ]
PyBool(b) == [ t |-> "bool", v |-> b ]
PyStr(s) == [ t |-> "str", v |-> s ]
EmptyDict == <<>>

\* dict.get(key): the value, or None when the key is absent.
Get(d, k) == IF k \in DOMAIN d THEN d[k] ELSE None

\* Truthiness of a tagged value: None, 0, False and "" are falsy.
Truthy(x) ==
    CASE x.t = "None" -> FALSE
      [] x.t = "int" -> x.v # 0
      [] x.t = "bool" -> x.v
      [] x.t = "str" -> x.v # ""

\* `x or 0`, as a number
OrZero(x) == IF Truthy(x) THEN x.v ELSE 0

(***************************************************************************)
(* Python strings                                                          *)
(***************************************************************************)
\* str.lower() of one character.
LowerChar(c) ==
    CASE c = "A" -> "a" [] c = "B" -> "b" [] c = "C" -> "c" [] c = "D" -> "d"
      [] c = "E" -> "e" [] c = "F" -> "f" [] c = "G" -> "g" [] c = "H" -> "h"
      [] c = "I" -> "i" [] c = "J" -> "j" [] c = "K" -> "k" [] c = "L" -> "l"
      [] c = "M" -> "m" [] c = "N" -> "n" [] c = "O" -> "o" [] c = "P" -> "p"
      [] c = "Q" -> "q" [] c = "R" -> "r" [] c = "S" -> "s" [] c = "T" -> "t"
      [] c = "U" -> "u" [] c = "V" -> "v" [] c = "W" -> "w" [] c = "X" -> "x"
      [] c = "Y" -> "y" [] c = "Z" -> "z" [] OTHER -> c

RECURSIVE LowerFrom(_, _)
LowerFrom(s, i) ==
    IF i > Len(s) THEN "" ELSE LowerChar(SubSeq(s, i, i)) \o LowerFrom(s, i + 1)

\* s.lower()
Lower(s) == LowerFrom(s, 1)

\* str.upper() of one character.
UpperChar(c) ==
    CASE c = "a" -> "A" [] c = "b" -> "B" [] c = "c" -> "C" [] c = "d" -> "D"
      [] c = "e" -> "E" [] c = "f" -> "F" [] c = "g" -> "G" [] c = "h" -> "H"
      [] c = "i" -> "I" [] c = "j" -> "J" [] c = "k" -> "K" [] c = "l" -> "L"
      [] c = "m" -> "M" [] c = "n" -> "N" [] c = "o" -> "O" [] c = "p" -> "P"
      [] c = "q" -> "Q" [] c = "r" -> "R" [] c = "s" -> "S" [] c = "t" -> "T"
      [] c = "u" -> "U" [] c = "v" -> "V" [] c = "w" -> "W" [] c = "x" -> "X"
      [] c = "y" -> "Y" [] c = "z" -> "Z" [] OTHER -> c

IsCased(c) == LowerChar(c) # c \/ UpperChar(c) # c

\* s.title(): a letter is upper-cased when no letter comes right before it
\* and lower-cased otherwise.
RECURSIVE TitleFrom(_, _)
TitleFrom(s, i) ==
    IF i > Len(s) THEN ""
    ELSE LET c == SubSeq(s, i, i)
             after_letter == i > 1 /\ IsCased(SubSeq(s, i - 1, i - 1))
         IN  (IF after_letter THEN LowerChar(c) ELSE UpperChar(c)) \o TitleFrom(s, i + 1)

Title(s) == TitleFrom(s, 1)

IsSpace(c) == c \in { " ", "\t", "\n", "\r" }

\* s.strip()
RECURSIVE Strip(_)
Strip(s) ==
    IF s = "" THEN ""
    ELSE IF IsSpace(SubSeq(s, 1, 1)) THEN Strip(SubSeq(s, 2, Len(s)))
    ELSE IF IsSpace(SubSeq(s, Len(s), Len(s))) THEN Strip(SubSeq(s, 1, Len(s) - 1))
    ELSE s

\* `k in s` for strings: k occurs in s as a substring.
Contains(s, k) ==
    \E i \in 1 .. (Len(s) - Len(k) + 1) : SubSeq(s, i, i + Len(k) - 1) = k

(***************************************************************************)
(* extract_health_goals                                                    *)
(***************************************************************************)
\* Mutant: the prompt is not lower-cased.
extract_health_goals_CaseSensitive(text) ==
    [ k \in { "diabetes", "weight_loss", "high_bp" } |->
        PyBool(CASE k = "diabetes" -> Contains(text, "diabetes")
                 [] k = "weight_loss" ->
                        Contains(text, "weight loss") \/ Contains(text, "losing weight")
                 [] k = "high_bp" ->
                        \/ Contains(text, "blood pressure")
                        \/ Contains(text, "bp")
                        \/ Contains(text, "hypertension")) ]

extract_health_goals(text) ==
    LET p == Lower(text) IN
    [ k \in { "diabetes", "weight_loss", "high_bp" } |->
        PyBool(CASE k = "diabetes" -> Contains(p, "diabetes")
                 [] k = "weight_loss" ->
                        Contains(p, "weight loss") \/ Contains(p, "losing weight")
                 [] k = "high_bp" ->
                        \/ Contains(p, "blood pressure")
                        \/ Contains(p, "bp")
                        \/ Contains(p, "hypertension")) ]

(***************************************************************************)
(* give_recommendations                                                    *)
(***************************************************************************)
NutrientKeys ==
    { "Calories", "Sweetness (g)", "Sodium (mg)", "Proteins (g)",
      "Total Fat (g)", "Cholesterol (mg)", "Potassium (mg)",
      "Total Carbohydrates (g)" }

GoalKeys == { "diabetes", "weight_loss", "high_bp" }

CaloriesBase == "High in calories."
CaloriesWeightLoss == " Try to limit this if you're trying to lose weight."
SweetnessBase == "High sweetness level."
SweetnessDiabetes ==
    " This may spike blood sugar - go for lower glycemic index foods."
SweetnessGeneric == " Consume moderately to avoid sugar crashes."
SodiumBase == "Very salty!"
SodiumHighBp ==
    " High sodium may increase blood pressure - consider low-sodium alternatives."
ProteinMsg == "Good protein source - helpful for muscle maintenance."
FatMsg == "High in fat - consume moderately if aiming for weight control."
CholesterolMsg == "High cholesterol content - reduce intake for heart health."
PotassiumMsg ==
    "Good potassium source - helps with muscle function and blood pressure regulation."
CarbsMsg ==
    "High in carbs - if you're watching carbs (e.g., keto diet), consider alternatives."
FallbackMsg == "Balanced food. Looks like a healthy option!"

\* The threshold each nutrient is compared with.
Threshold(k) ==
    CASE k = "Calories" -> 500
      [] k = "Sweetness (g)" -> 20
      [] k = "Sodium (mg)" -> 1500
      [] k = "Proteins (g)" -> 15
      [] k = "Total Fat (g)" -> 20
      [] k = "Cholesterol (mg)" -> 200
      [] k = "Potassium (mg)" -> 400
      [] k = "Total Carbohydrates (g)" -> 50

\* health_goals = health_goals or {}
GoalsOrEmpty(hg) == IF hg = None \/ hg = EmptyDict THEN EmptyDict ELSE hg

\* health_goals.get(flag), as a condition
GoalSet(hg, flag) == Truthy(Get(hg, flag))

CaloriesText(hg) ==
    IF GoalSet(hg, "weight_loss")
    THEN CaloriesBase \o CaloriesWeightLoss
    ELSE CaloriesBase

\* Mutant: the diabetes flag is not consulted.
SweetnessText_IgnoresDiabetes(hg) == SweetnessBase \o SweetnessGeneric

SweetnessText(hg) ==
    IF GoalSet(hg, "diabetes")
    THEN SweetnessBase \o SweetnessDiabetes
    ELSE SweetnessBase \o SweetnessGeneric

SodiumText(hg) ==
    IF GoalSet(hg, "high_bp")
    THEN SodiumBase \o SodiumHighBp
    ELSE SodiumBase

CaloriesRule(adv, calories, hg) ==
    IF calories > Threshold("Calories")
    THEN Append(adv, CaloriesText(hg)) ELSE adv

SweetnessRule(adv, sweetness, hg) ==
    IF sweetness > Threshold("Sweetness (g)")
    THEN Append(adv, SweetnessText(hg)) ELSE adv

SodiumRule(adv, sodium, hg) ==
    IF sodium > Threshold("Sodium (mg)")
    THEN Append(adv, SodiumText(hg)) ELSE adv

ProteinRule(adv, protein) ==
    IF protein > Threshold("Proteins (g)")
    THEN Append(adv, ProteinMsg) ELSE adv

FatRule(adv, fat) ==
    IF fat > Threshold("Total Fat (g)")
    THEN Append(adv, FatMsg) ELSE adv

\* Mutant: the cholesterol message is put at the front of the list.
CholesterolRule_Prepends(adv, cholesterol) ==
    IF cholesterol > Threshold("Cholesterol (mg)")
    THEN << CholesterolMsg >> \o adv ELSE adv

CholesterolRule(adv, cholesterol) ==
    IF cholesterol > Threshold("Cholesterol (mg)")
    THEN Append(adv, CholesterolMsg) ELSE adv

PotassiumRule(adv, potassium) ==
    IF potassium # 0 /\ potassium > Threshold("Potassium (mg)")
    THEN Append(adv, PotassiumMsg) ELSE adv

\* Mutant: the comparison is not strict.
CarbsRule_NonStrict(adv, carbs) ==
    IF carbs >= Threshold("Total Carbohydrates (g)")
    THEN Append(adv, CarbsMsg) ELSE adv

CarbsRule(adv, carbs) ==
    IF carbs > Threshold("Total Carbohydrates (g)")
    THEN Append(adv, CarbsMsg) ELSE adv

\* Mutant: the fallback message is appended unconditionally.
FallbackRule_Always(adv) == Append(adv, FallbackMsg)

\* if not advice: advice.append(fallback)
FallbackRule(adv) == IF adv = <<>> THEN Append(adv, FallbackMsg) ELSE adv

give_recommendations(n, goals) ==
    LET hg == GoalsOrEmpty(goals)
        \* `x = nutrition.get(key) or 0`
        calories == OrZero(Get(n, "Calories"))
        sweetness == OrZero(Get(n, "Sweetness (g)"))
        sodium == OrZero(Get(n, "Sodium (mg)"))
        protein == OrZero(Get(n, "Proteins (g)"))
        fat == OrZero(Get(n, "Total Fat (g)"))
        cholesterol == OrZero(Get(n, "Cholesterol (mg)"))
        potassium == OrZero(Get(n, "Potassium (mg)"))
        carbs == OrZero(Get(n, "Total Carbohydrates (g)"))
        a1 == CaloriesRule(<<>>, calories, hg)
        a2 == SweetnessRule(a1, sweetness, hg)
        a3 == SodiumRule(a2, sodium, hg)
        a4 == ProteinRule(a3, protein)
        a5 == FatRule(a4, fat)
        a6 == CholesterolRule(a5, cholesterol)
        a7 == PotassiumRule(a6, potassium)
        a8 == CarbsRule(a7, carbs)
    IN  FallbackRule(a8)

(***************************************************************************)
(* analyze_sentiment                                                       *)
(***************************************************************************)
\* TextBlob(comment).sentiment.polarity, in tenths, for the comments of the
\* model: the pattern lexicon scores "great" 0.8 and "awful" -1.0, and has
\* no entry for the words of the other comments.
Polarity(comment) ==
    CASE comment = "great" -> 8
      [] comment = "awful" -> -10
      [] OTHER -> 0

\* The labels are the source's without their emoji.
analyze_sentiment(comment) ==
    LET polarity == Polarity(comment) IN
    IF polarity > 0 THEN "Positive"
    ELSE IF polarity < 0 THEN "Negative"
    ELSE "Neutral"

(***************************************************************************)
(* pandas: DataFrame, to_csv, read_csv, concat, value_counts               *)
(*                                                                         *)
(* A DataFrame is [columns, rows]: the column names in order, and each row *)
(* a function from column name to a Python value (NaN for a missing one).  *)
(* A CSV file is [exists, header, rows]: the header line's names and each  *)
(* data line a function from column name to the text of its field; the     *)
(* quoting of commas, quotes and line breaks is csv's and is not modelled. *)
(* A file of zero bytes has no header and no rows.                         *)
(***************************************************************************)
NaN == [ t |-> "nan" ]

NoFile == [ exists |-> FALSE ]
CsvFile(header, rows) == [ exists |-> TRUE, header |-> header, rows |-> rows ]
ZeroBytes == CsvFile(<<>>, <<>>)

Digit(d) ==
    CASE d = 0 -> "0" [] d = 1 -> "1" [] d = 2 -> "2" [] d = 3 -> "3"
      [] d = 4 -> "4" [] d = 5 -> "5" [] d = 6 -> "6" [] d = 7 -> "7"
      [] d = 8 -> "8" [] d = 9 -> "9"

\* str(n) of an int n >= 0
RECURSIVE IntText(_)
IntText(n) == IF n < 10 THEN Digit(n) ELSE IntText(n \div 10) \o Digit(n % 10)

IsDigit(c) == c \in { "0", "1", "2", "3", "4", "5", "6", "7", "8", "9" }

DigitValue(c) == CHOOSE d \in 0 .. 9 : Digit(d) = c

IsIntText(text) ==
    /\ Len(text) > 0
    /\ \A i \in 1 .. Len(text) : IsDigit(SubSeq(text, i, i))

RECURSIVE ParseIntFrom(_, _, _)
ParseIntFrom(text, i, acc) ==
    IF i > Len(text) THEN acc
    ELSE ParseIntFrom(text, i + 1, 10 * acc + DigitValue(SubSeq(text, i, i)))

ParseInt(text) == ParseIntFrom(text, 1, 0)

\* read_csv's default na_values: a field with one of these texts is read
\* as NaN, in every column (keep_default_na=True, na_filter=True).
NaValues ==
    { "", "#N/A", "#N/A N/A", "#NA", "-1.#IND", "-1.#QNAN", "-NaN", "-nan",
      "1.#IND", "1.#QNAN", "<NA>", "N/A", "NA", "NULL", "NaN", "n/a", "nan",
      "null" }

\* to_csv's text of one value: na_rep is "" by default.
FormatCell(x) ==
    CASE x.t = "nan" -> ""
      [] x.t = "int" -> IntText(x.v)
      [] x.t = "str" -> x.v

\* DataFrame.to_csv(path, index=False), once the file is open: the header
\* line, then one line per row.
ToCsv(df) ==
    CsvFile(df.columns,
            [ i \in DOMAIN df.rows |->
                [ c \in DOMAIN df.rows[i] |-> FormatCell(df.rows[i][c]) ] ])

\* read_csv infers a column's type: int64 when every field that is not NaN
\* is an integer literal, object (str) otherwise.  (A column of the model
\* holding numbers never holds a NaN, so float64 does not arise.)
IntColumn(file, c) ==
    \A i \in DOMAIN file.rows :
        file.rows[i][c] \in NaValues \/ IsIntText(file.rows[i][c])

ParseCell(file, c, text) ==
    IF text \in NaValues THEN NaN
    ELSE IF IntColumn(file, c) THEN PyInt(ParseInt(text))
    ELSE PyStr(text)

\* pd.read_csv(path) of a file that has a header line.
ReadCsv(file) ==
    [ columns |-> file.header,
      rows |-> [ i \in DOMAIN file.rows |->
                   [ c \in DOMAIN file.rows[i] |->
                       ParseCell(file, c, file.rows[i][c]) ] ] ]

Range(seq) == { seq[i] : i \in DOMAIN seq }

\* pd.concat([a, b], ignore_index=True): a's columns, then b's that a has
\* not; a's rows, then b's; NaN where a row has no such column.
ConcatFrames(a, b) ==
    LET columns == a.columns \o SelectSeq(b.columns, LAMBDA c : c \notin Range(a.columns))
        Widen(row) == [ c \in Range(columns) |->
                          IF c \in DOMAIN row THEN row[c] ELSE NaN ]
    IN  [ columns |-> columns,
          rows |-> [ i \in 1 .. (Len(a.rows) + Len(b.rows)) |->
                       IF i <= Len(a.rows) THEN Widen(a.rows[i])
                       ELSE Widen(b.rows[i - Len(a.rows)]) ] ]

\* df[column].value_counts(): the count of each value of the column; NaN
\* is not counted (dropna=True).
ValueCounts(df, column) ==
    LET counted == { i \in DOMAIN df.rows : df.rows[i][column].t # "nan" }
        values == { FormatCell(df.rows[i][column]) : i \in counted }
    IN  [ x \in values |->
            Cardinality({ i \in counted : FormatCell(df.rows[i][column]) = x }) ]

(***************************************************************************)
(* save_feedback, show_sentiment_graph, the Submit Feedback handler        *)
(***************************************************************************)
FeedbackColumns == << "Name", "Age", "Satisfaction", "Comment", "Sentiment" >>

Returned(file) == [ raised |-> FALSE, file |-> file ]
Raised(file) == [ raised |-> TRUE, file |-> file ]

\* What is left of a file whose writing stopped: nothing, or the header
\* line and the first `written` data lines (written = -1: nothing).
Partial(file, written) ==
    IF written < 0 THEN ZeroBytes
    ELSE CsvFile(file.header, SubSeq(file.rows, 1, written))

\* Mutant: the file is overwritten with the new entry alone.
AllFeedback_NewOnly(file, new_feedback) == new_feedback

\* existing = pd.read_csv(...); all_feedback = pd.concat([existing, new])
\* or, without a file, all_feedback = new_feedback.
AllFeedback(file, new_feedback) ==
    IF file.exists
    THEN ConcatFrames(ReadCsv(file), new_feedback)
    ELSE new_feedback

\* save_feedback: what it leaves in feedback.csv and whether it raised.
\* fault says what the file system refuses: "none", "read" (read_csv
\* raises), "open" (to_csv cannot open the file for writing) or "write"
\* (to_csv opened the file, which empties it, and a write raises after
\* `written` data lines).
save_feedback(file, user_name, user_age, satisfaction, comment, fault, written) ==
    LET sentiment == analyze_sentiment(comment)
        new_feedback ==
            [ columns |-> FeedbackColumns,
              rows |-> << [ Name |-> PyStr(user_name),
                            Age |-> PyInt(user_age),
                            Satisfaction |-> PyInt(satisfaction),
                            Comment |-> PyStr(comment),
                            Sentiment |-> PyStr(sentiment) ] >> ]
    IN  IF file.exists /\ (fault = "read" \/ file.header = <<>>)
        THEN Raised(file)   \* OSError, or EmptyDataError of a zero-byte file
        ELSE IF fault = "open"
        THEN Raised(file)
        ELSE LET all_feedback == AllFeedback(file, new_feedback) IN
             IF fault = "write"
             THEN Raised(Partial(ToCsv(all_feedback), written))
             ELSE Returned(ToCsv(all_feedback))

\* show_sentiment_graph: what it shows and the counts it draws.
show_sentiment_graph(file) ==
    IF file.exists
    THEN IF file.header = <<>>
         THEN [ ui |-> << "exception" >>, counts |-> <<>> ]
         ELSE [ ui |-> << "sentiment_graph" >>,
                counts |-> ValueCounts(ReadCsv(file), "Sentiment") ]
    ELSE [ ui |-> << "no_feedback_info" >>, counts |-> <<>> ]

\* Mutant: one of the two fields is enough.
ValidForm_Either(user_name, comment) == user_name # "" \/ comment # ""

\* `if user_name and comment`
ValidForm(user_name, comment) == user_name # "" /\ comment # ""

FbInit ==
    /\ feedback_file = NoFile
    /\ submitted = << >>
    /\ prev_file = NoFile
    /\ sentiment_counts = << >>

\* How many entries feedback.csv holds at most.
MaxEntries == 2

\* The forms submitted.  The names are no name, a name, and a name that is
\* one of read_csv's NaN texts; the comments likewise, one per sentiment.
\* A named user has one age and rating; the nameless forms have them all.
Names == { "", "Ann", "NA" }
Ages == { 35, 120 }
Satisfactions == { 5, 10 }
Comments == { "", "great", "awful", "N/A" }

Forms ==
    { f \in [ user_name : Names, user_age : Ages, satisfaction : Satisfactions,
              comment : Comments ] :
        /\ f.user_name = "Ann" => (f.user_age = 35 /\ f.satisfaction = 10)
        /\ f.user_name = "NA" => (f.user_age = 120 /\ f.satisfaction = 5) }

Entries(file) == IF file.exists THEN Len(file.rows) ELSE 0

\* One run of the Give Feedback page with the Submit button pressed: the
\* handler, then show_sentiment_graph unless the run ended in an exception.
SubmitRun(form, fault, written) ==
    /\ submitted' = form
    /\ prev_file' = feedback_file
    /\ UNCHANGED <<recVars, goalVars, anVars>>
    /\ IF ValidForm(form.user_name, form.comment)
       THEN LET saved == save_feedback(feedback_file, form.user_name, form.user_age,
                                      form.satisfaction, form.comment, fault, written)
                graph == show_sentiment_graph(saved.file)
            IN  /\ feedback_file' = saved.file
                /\ IF saved.raised
                   THEN /\ pc' = "save_failed"
                        /\ ui' = << "exception" >>
                        /\ sentiment_counts' = << >>
                   ELSE /\ pc' = "saved"
                        /\ ui' = << "success" >> \o graph.ui
                        /\ sentiment_counts' = graph.counts
       ELSE LET graph == show_sentiment_graph(feedback_file) IN
            /\ pc' = "rejected"
            /\ feedback_file' = feedback_file
            /\ ui' = << "validation_error" >> \o graph.ui
            /\ sentiment_counts' = graph.counts

SubmitFeedback ==
    /\ Entries(feedback_file) < MaxEntries
    /\ \E form \in Forms : SubmitRun(form, "none", 0)

\* read_csv raises.
SubmitReadFails ==
    /\ Entries(feedback_file) < MaxEntries
    /\ feedback_file.exists
    /\ \E form \in Forms :
         /\ ValidForm(form.user_name, form.comment)
         /\ SubmitRun(form, "read", 0)

\* to_csv cannot open feedback.csv.
SubmitOpenFails ==
    /\ Entries(feedback_file) < MaxEntries
    /\ \E form \in Forms :
         /\ ValidForm(form.user_name, form.comment)
         /\ SubmitRun(form, "open", 0)

\* to_csv has opened feedback.csv and a write raises.
SubmitWriteFails ==
    /\ Entries(feedback_file) < MaxEntries
    /\ ~(feedback_file.exists /\ feedback_file.header = <<>>)
    /\ \E form \in Forms, written \in -1 .. Entries(feedback_file) :
         /\ ValidForm(form.user_name, form.comment)
         /\ SubmitRun(form, "write", written)

\* One run of the Give Feedback page without the button pressed.
ViewFeedbackPage ==
    LET graph == show_sentiment_graph(feedback_file) IN
    /\ pc' = "viewed"
    /\ prev_file' = feedback_file
    /\ ui' = graph.ui
    /\ sentiment_counts' = graph.counts
    /\ UNCHANGED <<feedback_file, submitted, recVars, goalVars, anVars>>

NextFeedback ==
    \/ SubmitFeedback
    \/ SubmitReadFails
    \/ SubmitOpenFails
    \/ SubmitWriteFails
    \/ ViewFeedbackPage

(***************************************************************************)
(* get_nutrition_info and the Analyze Food handler                         *)
(***************************************************************************)
Return(value) == [ raised |-> FALSE, value |-> value ]
Raise(exception) == [ raised |-> TRUE, exception |-> exception ]

\* get_nutrition_info, given the response of requests.post: a status code
\* and the JSON body, a dict.
get_nutrition_info(response) ==
    IF response.status_code = 200
    THEN LET data == response.data IN
         IF "foods" \in DOMAIN data
         THEN IF data["foods"] = << >>
              THEN Raise("IndexError")      \* data['foods'][0]
              ELSE LET item == data["foods"][1]
                       sugars == Get(item, "nf_sugars")
                   IN  Return(
                         [ k \in NutrientKeys \cup { "Food" } |->
                             CASE k = "Food" -> PyStr(Title(item["food_name"].v))
                               [] k = "Calories" -> Get(item, "nf_calories")
                               [] k = "Proteins (g)" -> Get(item, "nf_protein")
                               [] k = "Sweetness (g)" ->
                                      IF Truthy(sugars) THEN sugars ELSE PyInt(0)
                               [] k = "Sodium (mg)" -> Get(item, "nf_sodium")
                               [] k = "Total Fat (g)" -> Get(item, "nf_total_fat")
                               [] k = "Cholesterol (mg)" -> Get(item, "nf_cholesterol")
                               [] k = "Potassium (mg)" -> Get(item, "nf_potassium")
                               [] k = "Total Carbohydrates (g)" ->
                                      Get(item, "nf_total_carbohydrate") ])
         ELSE Return(None)
    ELSE Return(None)

AnInit ==
    /\ analyzed = << >>
    /\ session_info = None
    /\ prev_session = None
    /\ lookups = 0

\* How many items the 'foods' list of a response holds at most.
MaxFoods == 2

\* Two items as Nutritionix returns them; the second has null fields and
\* lacks a key.
FoodItems ==
    { [ food_name |-> PyStr("big mac"), nf_calories |-> PyInt(563),
        nf_protein |-> PyInt(26), nf_sugars |-> PyInt(9),
        nf_sodium |-> PyInt(1007), nf_total_fat |-> PyInt(33),
        nf_cholesterol |-> PyInt(79), nf_potassium |-> PyInt(396),
        nf_total_carbohydrate |-> PyInt(44) ],
      [ food_name |-> PyStr("cola"), nf_calories |-> PyInt(156),
        nf_protein |-> PyInt(0), nf_sugars |-> None,
        nf_sodium |-> PyInt(15), nf_total_fat |-> None,
        nf_potassium |-> None, nf_total_carbohydrate |-> PyInt(39) ] }

\* The responses: a refusal, a body without 'foods', and bodies whose
\* 'foods' list holds from no item to MaxFoods items.
Responses ==
    { [ status_code |-> 404, data |-> [ message |-> PyStr("no match") ] ],
      [ status_code |-> 200, data |-> [ message |-> PyStr("no match") ] ] }
    \cup { [ status_code |-> 200, data |-> [ foods |-> items ] ] :
             items \in UNION { [ 1 .. n -> FoodItems ] : n \in 0 .. MaxFoods } }

InputTexts == { "", " ", "I have diabetes, suggest meals" }

\* One run of the Analyze Food page with the button pressed and an image
\* uploaded: the handler's branch `if image`.
AnalyzeImage ==
    \E input_text \in InputTexts, response \in Responses :
        LET looked_up == get_nutrition_info(response)
            goals == extract_health_goals(input_text)
            meals == IF Strip(input_text) # "" THEN << "meal_suggestions" >> ELSE << >>
        IN  /\ pc' = "analyzed"
            /\ analyzed' = [ image |-> TRUE, input_text |-> input_text,
                             response |-> response ]
            /\ prev_session' = session_info
            /\ lookups' = 1
            /\ UNCHANGED fbVars
            /\ IF looked_up.raised
               THEN /\ ui' = << "detected_food", "exception" >>
                    /\ UNCHANGED <<session_info, recVars, goalVars>>
               ELSE IF looked_up.value # None
               THEN /\ ui' = << "detected_food", "nutrition_facts", "health_context",
                                "recommendations" >> \o meals
                    /\ nutrition' = looked_up.value
                    /\ prompt' = input_text
                    /\ extracted' = goals
                    /\ health_goals' = goals
                    /\ advice' = give_recommendations(looked_up.value, goals)
                    /\ session_info' = looked_up.value
               ELSE /\ ui' = << "detected_food", "lookup_error" >>
                    /\ UNCHANGED <<session_info, recVars, goalVars>>

\* The same without an image and with a prompt: `elif input_text`.
AnalyzePrompt ==
    \E input_text \in InputTexts :
        /\ input_text # ""
        /\ pc' = "analyzed"
        /\ analyzed' = [ image |-> FALSE, input_text |-> input_text ]
        /\ prev_session' = session_info
        /\ lookups' = 0
        /\ ui' = << "response" >>
        /\ UNCHANGED <<session_info, recVars, goalVars, fbVars>>

\* The same with neither.
AnalyzeNothing ==
    /\ pc' = "analyzed"
    /\ analyzed' = [ image |-> FALSE, input_text |-> "" ]
    /\ prev_session' = session_info
    /\ lookups' = 0
    /\ ui' = << "upload_warning" >>
    /\ UNCHANGED <<session_info, recVars, goalVars, fbVars>>

NextAnalyze == AnalyzeImage \/ AnalyzePrompt \/ AnalyzeNothing

(***************************************************************************)
(* Inputs of give_recommendations                                          *)
(***************************************************************************)
\* How far above its threshold a nutrient value of the inputs goes.
MaxExcess == 1

\* What one key of an input record may be: absent from the dict, None, a
\* number exactly at the key's threshold, or a number above it.
RecordOf(choice, excess) ==
    [ k \in { k \in NutrientKeys : choice[k] # "absent" } |->
        CASE choice[k] = "none" -> None
          [] choice[k] = "at" -> PyInt(Threshold(k))
          [] choice[k] = "above" -> PyInt(Threshold(k) + excess) ]

\* The record of the spec's scenario: only calories, sweetness and sodium
\* are above their thresholds.
ScenarioRecord ==
    [ k \in NutrientKeys |->
        PyInt(CASE k = "Calories" -> 600
                [] k = "Sweetness (g)" -> 25
                [] k = "Sodium (mg)" -> 1600
                [] k = "Proteins (g)" -> 5
                [] k = "Total Fat (g)" -> 10
                [] k = "Cholesterol (mg)" -> 50
                [] k = "Potassium (mg)" -> 100
                [] k = "Total Carbohydrates (g)" -> 20) ]

GoalDict(diabetes, weight_loss, high_bp) ==
    [ k \in GoalKeys |->
        PyBool(CASE k = "diabetes" -> diabetes
                 [] k = "weight_loss" -> weight_loss
                 [] k = "high_bp" -> high_bp) ]

\* The health_goals argument: omitted (None, the default) or a dict of
\* the three flags.
GoalInputs ==
    { None } \cup { GoalDict(d, w, h) : d \in BOOLEAN, w \in BOOLEAN, h \in BOOLEAN }

RecInit ==
    /\ nutrition = EmptyDict
    /\ health_goals = None
    /\ advice = <<>>

GoalInit ==
    /\ prompt = ""
    /\ extracted = EmptyDict

\* Nothing has run yet and there is no feedback.csv.
Init ==
    /\ pc = "start"
    /\ ui = << >>
    /\ RecInit
    /\ GoalInit
    /\ FbInit
    /\ AnInit

\* One call give_recommendations(n, g).
Call(n, g) ==
    /\ pc' = "recommended"
    /\ nutrition' = n
    /\ health_goals' = g
    /\ advice' = give_recommendations(n, g)
    /\ UNCHANGED <<ui, goalVars, fbVars, anVars>>

\* A record as get_nutrition_info builds it: every key, a number or None.
Recommend ==
    /\ pc = "start"
    /\ \E choice \in [ NutrientKeys -> { "none", "at", "above" } ],
          excess \in 1 .. MaxExcess, g \in GoalInputs :
          Call(RecordOf(choice, excess), g)

\* A record with keys missing.
RecommendPartial ==
    /\ pc = "start"
    /\ \E choice \in [ NutrientKeys -> { "absent", "at", "above" } ],
          excess \in 1 .. MaxExcess, g \in GoalInputs :
          Call(RecordOf(choice, excess), g)

RecommendScenario ==
    /\ pc = "start"
    /\ \E g \in GoalInputs : Call(ScenarioRecord, g)

NextRecommend == Recommend \/ RecommendPartial \/ RecommendScenario

SpecRecommend == Init /\ [][NextRecommend]_vars

(***************************************************************************)
(* Inputs of extract_health_goals                                          *)
(***************************************************************************)
\* How many fragments a prompt of the inputs is made of, at most.
MaxFragments == 3

\* The pieces the prompts are put together from: the keywords in several
\* cases, pieces of them, and near misses.
PromptFragments ==
    { "I have diabetes", " and ", "blood pressure issues", "Weight Loss",
      "weight", " loss", "Losing Weight", "b", "pm", "BP", "HYPERTENSION",
      "diabetic" }

RECURSIVE Concat(_)
Concat(fs) == IF fs = <<>> THEN "" ELSE Head(fs) \o Concat(Tail(fs))

\* One call extract_health_goals(text).
Extract ==
    /\ pc = "start"
    /\ \E n \in 0 .. MaxFragments :
         \E fs \in [ 1 .. n -> PromptFragments ] :
            /\ prompt' = Concat(fs)
            /\ extracted' = extract_health_goals(Concat(fs))
    /\ pc' = "extracted"
    /\ UNCHANGED <<ui, recVars, fbVars, anVars>>

NextGoals == Extract

SpecGoals == Init /\ [][NextGoals]_vars

SpecFeedback == Init /\ [][NextFeedback]_vars

\* Submissions whose reads and writes all succeed.
NextSubmissions == SubmitFeedback \/ ViewFeedbackPage

SpecSubmissions == Init /\ [][NextSubmissions]_vars

SpecAnalyze == Init /\ [][NextAnalyze]_vars

(***************************************************************************)
(* Claims about give_recommendations (under SpecRecommend)                 *)
(***************************************************************************)
\* The rule table of the specification: the nutrients in rule order, and
\* the threshold of each.
RuleOrder ==
    << "Calories", "Sweetness (g)", "Sodium (mg)", "Proteins (g)",
       "Total Fat (g)", "Cholesterol (mg)", "Potassium (mg)",
       "Total Carbohydrates (g)" >>

StatedThreshold ==
    [ k \in NutrientKeys |->
        CASE k = "Calories" -> 500
          [] k = "Sweetness (g)" -> 20
          [] k = "Sodium (mg)" -> 1500
          [] k = "Proteins (g)" -> 15
          [] k = "Total Fat (g)" -> 20
          [] k = "Cholesterol (mg)" -> 200
          [] k = "Potassium (mg)" -> 400
          [] k = "Total Carbohydrates (g)" -> 50 ]

\* The messages rule r can produce.
RuleMessages(r) ==
    CASE r = 1 -> { CaloriesBase, CaloriesBase \o CaloriesWeightLoss }
      [] r = 2 -> { SweetnessBase \o SweetnessDiabetes, SweetnessBase \o SweetnessGeneric }
      [] r = 3 -> { SodiumBase, SodiumBase \o SodiumHighBp }
      [] r = 4 -> { ProteinMsg }
      [] r = 5 -> { FatMsg }
      [] r = 6 -> { CholesterolMsg }
      [] r = 7 -> { PotassiumMsg }
      [] r = 8 -> { CarbsMsg }

\* The rule a message belongs to; 0 for the fallback message.
RuleOfMsg(m) ==
    IF \E r \in 1 .. 8 : m \in RuleMessages(r)
    THEN CHOOSE r \in 1 .. 8 : m \in RuleMessages(r)
    ELSE 0

\* The number a field of the record in the state stands for: 0 when the
\* key is absent or its value is None.
FieldValue(k) ==
    IF k \in DOMAIN nutrition /\ nutrition[k].t = "int" THEN nutrition[k].v ELSE 0

RuleHolds(r) == FieldValue(RuleOrder[r]) > StatedThreshold[RuleOrder[r]]

HoldingRules == { r \in 1 .. 8 : RuleHolds(r) }

\* Where in the returned list the messages of rule r are.
PlacesOf(r) == { i \in DOMAIN advice : advice[i] \in RuleMessages(r) }

Has(msg) == \E i \in DOMAIN advice : advice[i] = msg

\* Whether a flag is set in the health_goals of the state.
FlagSet(flag) ==
    /\ health_goals # None
    /\ flag \in DOMAIN health_goals
    /\ health_goals[flag] = PyBool(TRUE)

\* C1: every rule whose condition holds fires, exactly once, no other rule
\* fires, and the messages come in the order calories, sweetness, sodium,
\* protein, fat, cholesterol, potassium, carbs; sodium's message comes
\* before cholesterol's.
C1_RulesFireInTableOrder ==
    pc = "recommended" =>
        /\ \A r \in 1 .. 8 :
             Cardinality(PlacesOf(r)) = IF RuleHolds(r) THEN 1 ELSE 0
        /\ \A i, j \in DOMAIN advice :
             i < j => RuleOfMsg(advice[i]) < RuleOfMsg(advice[j])
        /\ (RuleHolds(3) /\ RuleHolds(6)) =>
             \E i, j \in DOMAIN advice :
                /\ i < j
                /\ advice[i] \in RuleMessages(3)
                /\ advice[j] = CholesterolMsg

\* C1 witness: all eight rules fired, sodium and cholesterol among them.
C1_Witness ==
    /\ pc = "recommended"
    /\ HoldingRules = 1 .. 8
    /\ Len(advice) = 8
    /\ health_goals = GoalDict(TRUE, FALSE, TRUE)

\* C2: the list is never empty; it is exactly the fallback message iff no
\* rule condition holds; the fallback never comes with a rule message; with
\* exactly one condition holding the list is that rule's message alone.
C2_FallbackIffNoRule ==
    pc = "recommended" =>
        /\ advice # <<>>
        /\ (advice = << FallbackMsg >>) <=> (HoldingRules = {})
        /\ Has(FallbackMsg) => Len(advice) = 1
        /\ \A r \in 1 .. 8 :
             HoldingRules = { r } =>
                Len(advice) = 1 /\ advice[1] \in RuleMessages(r)

\* C2 witness: a record with every key present and no rule condition
\* holding gave the fallback message.
C2_Witness ==
    /\ pc = "recommended"
    /\ DOMAIN nutrition = NutrientKeys
    /\ nutrition["Calories"] = PyInt(500)
    /\ nutrition["Potassium (mg)"] = None
    /\ HoldingRules = {}
    /\ advice = << FallbackMsg >>

\* C3: a field exactly at its threshold, missing or None does not fire its
\* rule, a field above its threshold does, and the empty record gives only
\* the fallback message.
C3_StrictThresholdsNullAsZero ==
    pc = "recommended" =>
        /\ \A r \in 1 .. 8 :
             LET k == RuleOrder[r] IN
             /\ ( \/ k \notin DOMAIN nutrition
                  \/ nutrition[k] = None
                  \/ nutrition[k] = PyInt(StatedThreshold[k]) )
                => PlacesOf(r) = {}
             /\ ( /\ k \in DOMAIN nutrition
                  /\ nutrition[k].t = "int"
                  /\ nutrition[k].v > StatedThreshold[k] )
                => PlacesOf(r) # {}
        /\ nutrition = EmptyDict => advice = << FallbackMsg >>

\* C3 witness: a record with a key missing, a key exactly at its threshold
\* and a key above its threshold.
C3_Witness ==
    /\ pc = "recommended"
    /\ "Potassium (mg)" \notin DOMAIN nutrition
    /\ "Sodium (mg)" \in DOMAIN nutrition
    /\ nutrition["Sodium (mg)"] = PyInt(1500)
    /\ "Calories" \in DOMAIN nutrition
    /\ nutrition["Calories"] = PyInt(501)
    /\ advice = << CaloriesBase >>

\* The rules that fired in the returned list.
RulesFired == { RuleOfMsg(advice[i]) : i \in DOMAIN advice } \ { 0 }

\* The one message of a rule without augmentation.
FixedMessage(r) == CHOOSE m \in RuleMessages(r) : TRUE

\* C4: the flags never change which rules fire nor the messages of rules
\* 4-8; the calorie message carries the weight-loss caution iff weight_loss
\* is set, the sweetness message the diabetes warning if diabetes is set and
\* the moderation note otherwise, the sodium message the blood-pressure
\* warning iff high_bp is set; omitted flags behave as all false; the
\* scenario record with all flags set gives the three augmented messages.
C4_FlagsOnlyChangeText ==
    pc = "recommended" =>
        /\ RulesFired = HoldingRules
        /\ \A r \in 4 .. 8 :
             RuleHolds(r) => Has(FixedMessage(r))
        /\ RuleHolds(1) =>
             IF FlagSet("weight_loss")
             THEN Has(CaloriesBase \o CaloriesWeightLoss) /\ ~Has(CaloriesBase)
             ELSE Has(CaloriesBase) /\ ~Has(CaloriesBase \o CaloriesWeightLoss)
        /\ RuleHolds(2) =>
             IF FlagSet("diabetes")
             THEN Has(SweetnessBase \o SweetnessDiabetes)
                  /\ ~Has(SweetnessBase \o SweetnessGeneric)
             ELSE Has(SweetnessBase \o SweetnessGeneric)
                  /\ ~Has(SweetnessBase \o SweetnessDiabetes)
        /\ RuleHolds(3) =>
             IF FlagSet("high_bp")
             THEN Has(SodiumBase \o SodiumHighBp) /\ ~Has(SodiumBase)
             ELSE Has(SodiumBase) /\ ~Has(SodiumBase \o SodiumHighBp)
        /\ health_goals = None =>
             advice = give_recommendations(nutrition, GoalDict(FALSE, FALSE, FALSE))
        /\ (nutrition = ScenarioRecord /\ health_goals = GoalDict(TRUE, TRUE, TRUE)) =>
             advice = << CaloriesBase \o CaloriesWeightLoss,
                         SweetnessBase \o SweetnessDiabetes,
                         SodiumBase \o SodiumHighBp >>

\* C4 witness: the scenario record analysed with all three flags set.
C4_Witness ==
    /\ pc = "recommended"
    /\ nutrition = ScenarioRecord
    /\ health_goals = GoalDict(TRUE, TRUE, TRUE)
    /\ Len(advice) = 3

(***************************************************************************)
(* Claims about extract_health_goals (under SpecGoals)                     *)
(***************************************************************************)
\* The prompt of the state has keyword k somewhere, in any case: some
\* stretch of the prompt, lower-cased, is k.
Mentions(k) ==
    \E i \in 1 .. Len(prompt) :
        /\ i + Len(k) - 1 <= Len(prompt)
        /\ Lower(SubSeq(prompt, i, i + Len(k) - 1)) = k

\* C10: extract_health_goals returns exactly the three flags, each true iff
\* one of its own keywords occurs in the prompt in any case ("bp" inside
\* "bpm" too); the empty prompt gives all false and "I have diabetes and
\* blood pressure issues" gives diabetes and high_bp only.
C10_KeywordFlags ==
    pc = "extracted" =>
        /\ DOMAIN extracted = { "diabetes", "weight_loss", "high_bp" }
        /\ extracted["diabetes"] = PyBool(Mentions("diabetes"))
        /\ extracted["weight_loss"] =
             PyBool(Mentions("weight loss") \/ Mentions("losing weight"))
        /\ extracted["high_bp"] =
             PyBool(\/ Mentions("blood pressure")
                    \/ Mentions("bp")
                    \/ Mentions("hypertension"))
        /\ prompt = "" => extracted = GoalDict(FALSE, FALSE, FALSE)
        /\ prompt = "bpm" => extracted = GoalDict(FALSE, FALSE, TRUE)
        /\ prompt = "I have diabetes and blood pressure issues" =>
             extracted = GoalDict(TRUE, FALSE, TRUE)

\* C10 witness: the prompt of the specification's example was analysed.
C10_Witness ==
    /\ pc = "extracted"
    /\ prompt = "I have diabetes and blood pressure issues"
    /\ extracted = GoalDict(TRUE, FALSE, TRUE)

(***************************************************************************)
(* Claims about the feedback store (under SpecFeedback, SpecSubmissions)   *)
(***************************************************************************)
Shown(what) == \E i \in DOMAIN ui : ui[i] = what

SubmitRan == pc \in { "saved", "save_failed", "rejected" }

\* The data lines of a file; none when there is no file.
StoredRows(file) == IF file.exists THEN file.rows ELSE << >>

\* The sentiment label the specification gives a comment: by the sign of
\* its polarity.
ExpectedLabel(comment) ==
    IF Polarity(comment) > 0 THEN "Positive"
    ELSE IF Polarity(comment) < 0 THEN "Negative"
    ELSE "Neutral"

\* The entry a submitted form is to be stored as.
ExpectedEntry(form) ==
    [ Name |-> form.user_name,
      Age |-> IntText(form.user_age),
      Satisfaction |-> IntText(form.satisfaction),
      Comment |-> form.comment,
      Sentiment |-> ExpectedLabel(form.comment) ]

\* C5: a save_feedback that fails shows its failure and leaves in
\* feedback.csv exactly the entries it held before.
C5_FailedSaveKeepsStore ==
    pc = "save_failed" =>
        /\ Shown("exception")
        /\ StoredRows(feedback_file) = StoredRows(prev_file)

\* C6: a successful save_feedback leaves a file with the five columns whose
\* entries are the entries it held before, unchanged and in order, followed
\* by the one new entry.
C6_AppendOnly ==
    pc = "saved" =>
        /\ feedback_file.exists
        /\ feedback_file.header = FeedbackColumns
        /\ feedback_file.rows = Append(StoredRows(prev_file), ExpectedEntry(submitted))

\* The sentiment counts of the lines of a file.
StoredCounts(file) ==
    LET rows == StoredRows(file)
        labels == { rows[i].Sentiment : i \in DOMAIN rows }
    IN  [ l \in labels |-> Cardinality({ i \in DOMAIN rows : rows[i].Sentiment = l }) ]

\* counts with the count of label one higher.
Incremented(counts, label) ==
    [ l \in DOMAIN counts \cup { label } |->
        (IF l \in DOMAIN counts THEN counts[l] ELSE 0) + (IF l = label THEN 1 ELSE 0) ]

\* C7: the counts drawn right after a save_feedback are the counts of the
\* file before it with the new entry's label one higher; with no file the
\* page draws no counts and shows the "no feedback yet" note.
C7_CountsAfterSave ==
    /\ pc = "saved" =>
         /\ Shown("sentiment_graph")
         /\ sentiment_counts =
              Incremented(StoredCounts(prev_file), ExpectedLabel(submitted.comment))
    /\ (pc \in { "viewed", "rejected" } /\ feedback_file = NoFile) =>
         /\ Shown("no_feedback_info")
         /\ ~Shown("sentiment_graph")
         /\ sentiment_counts = << >>

\* C7 witness: a positive entry was saved into a file that held one
\* negative entry.
C7_Witness ==
    /\ pc = "saved"
    /\ Len(StoredRows(prev_file)) = 1
    /\ prev_file.rows[1].Sentiment = "Negative"
    /\ submitted.comment = "great"
    /\ DOMAIN sentiment_counts = { "Positive", "Negative" }
    /\ sentiment_counts["Positive"] = 1
    /\ sentiment_counts["Negative"] = 1

\* C8: a submission with the name or the comment empty is rejected with the
\* validation error and leaves feedback.csv as it was, for every age and
\* satisfaction.
C8_EmptyFieldsRejected ==
    (SubmitRan /\ (submitted.user_name = "" \/ submitted.comment = "")) =>
        /\ pc = "rejected"
        /\ ui[1] = "validation_error"
        /\ ~Shown("success")
        /\ feedback_file = prev_file

\* C8 witness: a form with a comment and no name was rejected when the
\* file held an entry.
C8_Witness ==
    /\ pc = "rejected"
    /\ submitted.user_name = ""
    /\ submitted.comment = "great"
    /\ submitted.user_age = 120
    /\ submitted.satisfaction = 5
    /\ feedback_file.exists
    /\ Len(feedback_file.rows) = 1
    /\ feedback_file = prev_file

(***************************************************************************)
(* Claims about the nutrition lookup (under SpecAnalyze)                   *)
(***************************************************************************)
\* The response has no matching food item.
NoMatchingItem(response) ==
    \/ response.status_code # 200
    \/ "foods" \notin DOMAIN response.data
    \/ response.data["foods"] = << >>

\* C9: when the response has no matching food item, the run shows the
\* "could not fetch nutrition information" message and no facts,
\* recommendations or meal suggestions, sends one request only, and leaves
\* the session's nutrition_info as it was.
C9_NoMatchShowsLookupError ==
    (pc = "analyzed" /\ analyzed.image /\ NoMatchingItem(analyzed.response)) =>
        /\ Shown("lookup_error")
        /\ ~Shown("exception")
        /\ ~Shown("nutrition_facts")
        /\ ~Shown("recommendations")
        /\ ~Shown("meal_suggestions")
        /\ lookups = 1
        /\ session_info = prev_session

====
